---- MODULE Spec2Model ----
(***************************************************************************)
(* Model of the text-extraction backend of text-extract-ai                 *)
(* (server/server.js): the /extract request handler, processTextLines,     *)
(* cleanTextWithAI and groupLinesIntoParagraphs.                           *)
(*                                                                         *)
(* Text is a sequence of one-character strings, so that trimming, suffix   *)
(* tests, concatenation and newline collapsing are computed, not assumed.  *)
(* Geometry is integer valued; the page-wide averages are kept as a sum    *)
(* and a count, and every comparison against a quotient is evaluated the   *)
(* way IEEE-754 division evaluates it (x/0 is +-Infinity or NaN).          *)
(***************************************************************************)
EXTENDS Integers, Sequences, FiniteSets, TLC

VARIABLES
  textLines,    \* groupLinesIntoParagraphs: the argument (content lines of one page)
  paragraphs,   \* groupLinesIntoParagraphs: the local array, each entry with its lines
  segOut,       \* groupLinesIntoParagraphs: the returned array
  segPc,        \* "input" before the call, "done" after it returned
  pageLines,    \* processTextLines: the textLines of one page, blank lines included
  pageOut,      \* processTextLines: what the page's callback returned
  pagePc,       \* "input" before the callback ran, "done" after it returned
  uploading,    \* DocumentUpload: state uploading, as last rendered
  uploadError,  \* DocumentUpload: state error ("" for null), as last rendered
  upPending,    \* upload requests whose fetch has not settled
  upFiles,      \* history: the files selected in the file input
  upSent,       \* history: upload requests sent
  upDelivered,  \* history: calls of onDocumentUploaded
  currentDocument, \* App: currentDocument.documentId as last rendered, the prop of TextExtraction (0: none)
  queue,        \* per state hook, <<v>> for the last update queued and not yet rendered, else <<>>
  effectPending,\* the effects on currentDocument were committed and have not run yet
  viewerLoads,  \* loadDocument calls waiting for NutrientViewer.load
  loadsStarted, \* history: loadDocument calls that reached NutrientViewer.load
  extractedText,\* TextExtraction: state extractedText (<<>> for null), as last rendered
  loading,      \* TextExtraction: state loading, as last rendered
  error,        \* TextExtraction: state error ("" for null), as last rendered
  selectedPage, \* TextExtraction: state selectedPage, as last rendered
  exPending,    \* extraction requests whose fetch has not settled
  exStarted,    \* history: extraction requests sent
  exCompleted,  \* history: calls of onExtractionComplete
  textOf,       \* history: the document extractedText was extracted from
  errorOf,      \* history: the document whose request set error
  anthropic,    \* server: TRUE when the Anthropic client was created at startup
  reqPc,        \* /extract handler: "idle", "fetching", "processing", "responded"
  useAI,        \* /extract handler: req.body.useAI (default true)
  pagesData,    \* /extract handler: the document engine's pages
  inFlight,     \* pages whose anthropic.messages.create call has not returned
  pageSlots,    \* Promise.all: the values array, <<>> for a slot not yet fulfilled
  response,     \* what res.json / res.status(500).json sent
  fetchCount,   \* history: document-engine fetches issued
  aiCalls,      \* history: per page, anthropic.messages.create calls issued
  aiReply,      \* history: per page, <<text>> the API returned, <<>> if none
  aiFailed,     \* history: pages whose API call threw
  segCalls,     \* history: calls of groupLinesIntoParagraphs by the request
  settleOrder   \* history: page positions in the order their promises fulfilled

segVars == <<textLines, paragraphs, segOut, segPc>>
reqVars == <<anthropic, reqPc, useAI, pagesData, inFlight, pageSlots, response,
             fetchCount, aiCalls, aiReply, aiFailed, segCalls, settleOrder>>
pageVars == <<pageLines, pageOut, pagePc>>
uploadVars == <<uploading, uploadError, upPending, upFiles, upSent, upDelivered>>
extractVars == <<extractedText, loading, error, selectedPage, exPending,
                 exStarted, exCompleted, textOf, errorOf>>
extractState == <<extractedText, loading, error, selectedPage, textOf, errorOf>>
appVars == <<currentDocument, queue, effectPending, viewerLoads, loadsStarted>>
rendered == <<uploading, uploadError, currentDocument, extractState>>
uiVars == <<uploadVars, appVars, extractVars>>
vars == <<segVars, pageVars, uiVars, reqVars>>

----------------------------------------------------------------------------
(* Bounds of the model *)

MaxLines == 3
MaxPages == 2
MaxPageLines == 6
MaxEvents == 4
MaxViewPages == 2
MaxLoads == 1

----------------------------------------------------------------------------
(* Strings *)

\* The code units String.prototype.trim() removes (ECMAScript WhiteSpace and
\* LineTerminator) that a string of this module can hold: space, line feed,
\* tab, carriage return, form feed, vertical tab (U+000B), no-break space
\* (U+00A0), U+1680 and U+FEFF.  trim() removes U+2000..U+200A, U+2028,
\* U+2029, U+202F, U+205F and U+3000 as well; no string literal of the
\* language can hold them, so no text of the model contains them.
Whitespace == {" ", "\n", "\t", "\r", "\f", "", " ", " ", "﻿"}

\* s holds a character trim() does not remove.
HasInk(s) == \E i \in 1..Len(s) : s[i] \notin Whitespace

\* String.prototype.trimStart(): s from its first non-whitespace character.
TrimStart(s) ==
  IF ~HasInk(s) THEN <<>>
  ELSE SubSeq(s, CHOOSE i \in 1..Len(s) :
                   s[i] \notin Whitespace /\ \A j \in 1..(i - 1) : s[j] \in Whitespace,
              Len(s))

\* String.prototype.trimEnd(): s up to its last non-whitespace character.
TrimEnd(s) ==
  IF ~HasInk(s) THEN <<>>
  ELSE SubSeq(s, 1, CHOOSE i \in 1..Len(s) :
                      s[i] \notin Whitespace
                        /\ \A j \in (i + 1)..Len(s) : s[j] \in Whitespace)

\* String.prototype.trim()
Trim(s) == TrimEnd(TrimStart(s))

\* /[.!?]$/.test(s)
EndsWithPunctuation(s) == Len(s) > 0 /\ s[Len(s)] \in {".", "!", "?"}

\* s.endsWith('-')
EndsWithHyphen(s) == Len(s) > 0 /\ s[Len(s)] = "-"

\* CollapseNewlines that keeps every newline.
CollapseNewlinesNever(s) == s

\* s.replace(/\n{3,}/g, "\n\n"): every maximal run of 3 or more newlines
\* becomes two, shorter runs are kept; so a newline goes exactly when the two
\* characters before it are newlines.
CollapseNewlines(s) ==
  LET Kept(i) == ~(s[i] = "\n" /\ i >= 3 /\ s[i - 1] = "\n" /\ s[i - 2] = "\n")
      idx == SelectSeq([i \in 1..Len(s) |-> i], Kept)
  IN [j \in 1..Len(idx) |-> s[idx[j]]]

\* sanitizeText: '' for a falsy argument (the empty string), else the text itself.
sanitizeText(text) == IF text = <<>> THEN <<>> ELSE text

\* s repeated n times.
Repeat(s, n) == [i \in 1..(n * Len(s)) |-> s[((i - 1) % Len(s)) + 1]]

\* sub occurs in s as a contiguous substring.
Contains(s, sub) ==
  \E k \in 0..(Len(s) - Len(sub)) : SubSeq(s, k + 1, k + Len(sub)) = sub

----------------------------------------------------------------------------
(* groupLinesIntoParagraphs *)

Abs(x) == IF x < 0 THEN -x ELSE x
Min(a, b) == IF a < b THEN a ELSE b
Max(a, b) == IF a > b THEN a ELSE b

RECURSIVE SumHeights(_)
SumHeights(ls) == IF ls = <<>> THEN 0 ELSE Head(ls).height + SumHeights(Tail(ls))

\* gap between line i-1 and line i: top of i minus bottom of i-1.
GapAt(ls, i) == ls[i].top - (ls[i - 1].top + ls[i - 1].height)

RECURSIVE SumGapsFrom(_, _)
SumGapsFrom(ls, i) == IF i > Len(ls) THEN 0 ELSE GapAt(ls, i) + SumGapsFrom(ls, i + 1)

\* The sum of the gaps array; avgGap is SumGaps(ls) / (Len(ls) - 1).
SumGaps(ls) == SumGapsFrom(ls, 2)

RECURSIVE Pow2(_)
Pow2(n) == IF n = 0 THEN 1 ELSE 2 * Pow2(n - 1)

\* The binary exponent of the quotient p / q, for p, q > 0: the e with
\* 2^e <= p / q < 2^(e + 1).
RECURSIVE FloorLog2(_, _)
FloorLog2(p, q) ==
  IF p < q THEN FloorLog2(2 * p, q) - 1
  ELSE IF 2 * q <= p THEN FloorLog2(p, 2 * q) + 1
  ELSE 0

\* 2^k modulo m.
RECURSIVE PowMod(_, _)
PowMod(k, m) == IF k = 0 THEN 1 % m ELSE (2 * PowMod(k - 1, m)) % m

\* The rounding error of the division p / q in IEEE-754 doubles (53-bit
\* significand, round to nearest, ties to even), for integers p, q > 0: the
\* integer d with  fl(p / q) = p / q + d / (q * 2^k),  k = 52 - FloorLog2(p, q).
\* With p * 2^k = M * q + r the significand is M, rounded up when the
\* remainder r is more than half of q, or exactly half and M is odd.
RoundErr(p, q) ==
  LET k   == 52 - FloorLog2(p, q)
      r   == ((p % q) * PowMod(k, q)) % q
      odd == ((p % (2 * q)) * PowMod(k, 2 * q)) % (2 * q) >= q
  IN IF 2 * r > q \/ (2 * r = q /\ odd) THEN q - r ELSE 0 - r

\* (x / (s / c)) > num / den in doubles when x * c * den = num * s exactly,
\* for s, c, num, den > 0.  The divisor fl(s / c) is s / c + d / (c * 2^k).
\* Rounded up or exact (d >= 0), the quotient is at most num / den and its
\* double is at most the double of num / den.  Rounded down, the quotient
\* exceeds num / den by the relative error -d / (s * 2^k), and its double is
\* greater exactly when the quotient reaches the midpoint between the double
\* of num / den and the next double.
QuotientTieAbove(s, c, num, den) ==
  LET d   == RoundErr(s, c)
      rho == 2 * RoundErr(num, den) + den
      E   == 1 + FloorLog2(s, c) - FloorLog2(num, den)
  IN /\ d < 0
     /\ (0 - d) * num * (IF E >= 0 THEN Pow2(E) ELSE 1)
          >= s * rho * (IF E >= 0 THEN 1 ELSE Pow2(0 - E))

\* (x / (sum / cnt)) > num / den in doubles for a divisor other than zero.
\* Off the boundary the rounding errors (below 2^-51 relative) cannot change
\* the comparison of two rationals with these small terms, and a negative
\* divisor reverses the inequality; on the boundary the roundings decide.
QuotientGTNonZero(x, sum, cnt, num, den) ==
  IF x * cnt * den = num * sum THEN QuotientTieAbove(Abs(sum), cnt, num, den)
  ELSE IF sum > 0 THEN x * cnt * den > num * sum
  ELSE x * cnt * den < num * sum

\* QuotientGT that takes a quotient by zero for not greater.
QuotientGTZeroGuarded(x, sum, cnt, num, den) ==
  IF sum = 0 THEN FALSE
  ELSE QuotientGTNonZero(x, sum, cnt, num, den)

\* (x / (sum / cnt)) > num / den in IEEE arithmetic, for integers x, sum and
\* cnt > 0, num, den > 0. With sum = 0 the divisor is +0: the quotient is
\* +Infinity for x > 0, -Infinity for x < 0 and NaN for x = 0, and only
\* +Infinity compares greater.
QuotientGT(x, sum, cnt, num, den) ==
  IF sum = 0 THEN x > 0
  ELSE QuotientGTNonZero(x, sum, cnt, num, den)

\* gapRatio > 1.5
GapRatioLarge(ls, i) == QuotientGT(GapAt(ls, i), SumGaps(ls), Len(ls) - 1, 3, 2)

\* gapRatio > 1.2
GapRatioMedium(ls, i) == QuotientGT(GapAt(ls, i), SumGaps(ls), Len(ls) - 1, 6, 5)

\* heightChange > 0.2
HeightChanged(ls, i) ==
  QuotientGT(Abs(ls[i].height - ls[i - 1].height), SumHeights(ls), Len(ls), 1, 5)

\* Largest left-edge difference that is not an indentation change.
IndentLimit == 30

\* IndentChanged measured from the first line instead of the previous one.
IndentChangedFromFirst(ls, i) == Abs(ls[i].left - ls[1].left) > IndentLimit

\* indentChange > 30
IndentChanged(ls, i) == Abs(ls[i].left - ls[i - 1].left) > IndentLimit

\* gap > avgHeight * 1.5, with avgHeight = SumHeights(ls) / Len(ls).  For
\* integers the doubles compare as the rationals do, the boundary
\* 2 * gap * Len = 3 * SumHeights included: there avgHeight is 2 * gap / 3,
\* whose double is exact or off by a third of its last place, and the
\* product then lies halfway between gap and its neighbour and rounds to
\* gap, whose significand is even.
VeryLargeGap(ls, i) == 2 * GapAt(ls, i) * Len(ls) > 3 * SumHeights(ls)

prevEndsWithPunctuation(ls, i) ==
  EndsWithPunctuation(Trim(sanitizeText(ls[i - 1].contents)))

\* isParagraphBreak without its last signal, the very large gap.
BreakWithoutVeryLargeGap(ls, i) ==
  \/ GapRatioLarge(ls, i)
  \/ HeightChanged(ls, i)
  \/ IndentChanged(ls, i)
  \/ (GapRatioMedium(ls, i) /\ EndsWithPunctuation(Trim(sanitizeText(ls[i - 1].contents))))

isParagraphBreak(ls, i) ==
  \/ GapRatioLarge(ls, i)
  \/ HeightChanged(ls, i)
  \/ IndentChanged(ls, i)
  \/ (GapRatioMedium(ls, i) /\ prevEndsWithPunctuation(ls, i))
  \/ VeryLargeGap(ls, i)

\* The paragraph-in-progress opened at a line.
NewParagraph(line) ==
  [ lines |-> <<line>>,
    text  |-> sanitizeText(line.contents),
    bbox  |-> [left |-> line.left, top |-> line.top,
               width |-> line.width, height |-> line.height] ]

\* Separator without the hyphen test.
SeparatorAlwaysSpace(prevLine) == <<" ">>

\* '' after a line whose trimmed contents end with a hyphen, ' ' otherwise.
Separator(prevLine) ==
  IF EndsWithHyphen(Trim(sanitizeText(prevLine.contents))) THEN <<>> ELSE <<" ">>

\* AddLine with the push onto the paragraph's lines left out.
AddLineDropsLine(cur, prevLine, line) ==
  LET minLeft  == Min(cur.bbox.left, line.left)
      maxRight == Max(cur.bbox.left + cur.bbox.width, line.left + line.width)
  IN [ lines |-> cur.lines,
       text  |-> cur.text \o Separator(prevLine) \o sanitizeText(line.contents),
       bbox  |-> [left   |-> minLeft,
                  top    |-> cur.bbox.top,
                  width  |-> maxRight - minLeft,
                  height |-> line.top + line.height - cur.bbox.top] ]

\* AddLine that takes the width of the wider box instead of the union.
AddLineWidestWidth(cur, prevLine, line) ==
  [ lines |-> Append(cur.lines, line),
    text  |-> cur.text \o Separator(prevLine) \o sanitizeText(line.contents),
    bbox  |-> [left   |-> Min(cur.bbox.left, line.left),
               top    |-> cur.bbox.top,
               width  |-> Max(cur.bbox.width, line.width),
               height |-> line.top + line.height - cur.bbox.top] ]

\* The else branch of the loop: the line joins the current paragraph.
AddLine(cur, prevLine, line) ==
  LET minLeft  == Min(cur.bbox.left, line.left)
      maxRight == Max(cur.bbox.left + cur.bbox.width, line.left + line.width)
  IN [ lines |-> Append(cur.lines, line),
       text  |-> cur.text \o Separator(prevLine) \o sanitizeText(line.contents),
       bbox  |-> [left   |-> minLeft,
                  top    |-> cur.bbox.top,
                  width  |-> maxRight - minLeft,
                  height |-> line.top + line.height - cur.bbox.top] ]

\* The for loop from index i, then the push of the last paragraph.
RECURSIVE GroupLoop(_, _, _, _)
GroupLoop(ls, i, cur, paras) ==
  IF i > Len(ls) THEN Append(paras, cur)
  ELSE IF isParagraphBreak(ls, i)
       THEN GroupLoop(ls, i + 1, NewParagraph(ls[i]), Append(paras, cur))
       ELSE GroupLoop(ls, i + 1, AddLine(cur, ls[i - 1], ls[i]), paras)

\* GroupedParagraphs that returns nothing for fewer than two lines.
GroupedParagraphsNeedsTwo(ls) ==
  IF Len(ls) <= 1 THEN <<>> ELSE GroupLoop(ls, 2, NewParagraph(ls[1]), <<>>)

\* The local paragraphs array when the loop has ended.
GroupedParagraphs(ls) ==
  IF Len(ls) = 0 THEN <<>> ELSE GroupLoop(ls, 2, NewParagraph(ls[1]), <<>>)

\* FormatParagraph without the trim.
FormatParagraphUntrimmed(p) ==
  [ text |-> p.text, bbox |-> p.bbox, lineCount |-> Len(p.lines) ]

\* The final map: what a returned paragraph holds.
FormatParagraph(p) ==
  [ text |-> Trim(p.text), bbox |-> p.bbox, lineCount |-> Len(p.lines) ]

groupLinesIntoParagraphs(ls) ==
  LET ps == GroupedParagraphs(ls) IN [k \in 1..Len(ps) |-> FormatParagraph(ps[k])]

----------------------------------------------------------------------------
(* Inputs of the segmenter: lines as the document engine emits them *)

Exam   == <<"e", "x", "a", "m", "-">>
Ple    == <<"p", "l", "e">>
EndDot == <<"E", "n", "d", ".", "\n">>

LineContents == {Exam, Ple, EndDot}

\* left / width / height of a line box.
PlainShape == [left |-> 10, width |-> 50, height |-> 10]

\* An indented narrow box, a taller box, and a slightly shifted wide box.
OtherShapes == { [left |-> 41, width |-> 40, height |-> 10],
                 [left |-> 20, width |-> 60, height |-> 13],
                 [left |-> 20, width |-> 60, height |-> 10] }

\* Distance from the bottom of the previous line (negative: boxes overlap).
LineGaps == {-5, 0, 2, 5, 16}

\* The usual distance between two lines of running text.
PlainGap == 1 + 1

\* A slightly lower line laid over the previous one: after a line of height
\* 10 it starts at the same top and ends above that line's bottom.
OverlaidLine ==
  [contents |-> Ple, shape |-> [left |-> 10, width |-> 50, height |-> 9],
   gap |-> -10]

\* A line varies its gap or its shape, or is laid over the previous one.
LineChoices ==
  [contents : LineContents, shape : {PlainShape}, gap : LineGaps]
    \cup [contents : LineContents, shape : OtherShapes, gap : {PlainGap}]
    \cup {OverlaidLine}

\* The box of a line of larger type.
LargeShape == [left |-> 10, width |-> 50, height |-> 20]

\* The gaps of four-line pages with a gap exactly on a threshold of the gap
\* ratio: 22 of an average 55 / 3 and 2 of an average 5 / 3 are 1.2 times the
\* average, 5 of an average 10 / 3 is 1.5 times the average.
BoundaryGaps == { <<PlainGap, 22, 22, 11>>, <<PlainGap, 2, 2, 1>>,
                  <<PlainGap, 5, 2, 3>> }

\* The four-line pages of larger type with these gaps.
BoundaryPages ==
  { [k \in 1..4 |-> [contents |-> cs[k], shape |-> LargeShape, gap |-> gs[k]]] :
      cs \in [1..4 -> {Ple, EndDot}], gs \in BoundaryGaps }

\* The engine emits the lines of a page from top to bottom.
TopsNonDecreasing(ls) == \A i \in 2..Len(ls) : ls[i - 1].top <= ls[i].top

\* The lines a sequence of choices describes; the first line sits at top 0 and
\* each later one at its gap below the previous line's bottom.
RECURSIVE BuildLines(_, _, _)
BuildLines(ch, k, acc) ==
  IF k > Len(ch) THEN acc
  ELSE LET top == IF k = 1 THEN 0
                  ELSE acc[k - 1].top + acc[k - 1].height + ch[k].gap
       IN BuildLines(ch, k + 1,
            Append(acc, [contents |-> ch[k].contents,
                         left |-> ch[k].shape.left, top |-> top,
                         width |-> ch[k].shape.width,
                         height |-> ch[k].shape.height]))

----------------------------------------------------------------------------
(* processTextLines and cleanTextWithAI *)

\* textLines.map(line => sanitizeText(line.contents)).join("")
RECURSIVE JoinContents(_)
JoinContents(ls) ==
  IF ls = <<>> THEN <<>>
  ELSE sanitizeText(Head(ls).contents) \o JoinContents(Tail(ls))

\* RawText without the final trim.
RawTextUntrimmed(ls) == CollapseNewlines(JoinContents(ls))

\* rawText of a page: the joined contents, newline runs collapsed, trimmed.
RawText(ls) == Trim(CollapseNewlines(JoinContents(ls)))

\* ContentLines without the filter.
ContentLinesUnfiltered(ls) == ls

\* The filter that keeps the lines used for spatial analysis.
IsContentLine(line) ==
  /\ line.contents # <<>>
  /\ Trim(line.contents) # <<>>
  /\ line.contents # <<"\n">>

ContentLines(ls) == SelectSeq(ls, IsContentLine)

\* Shortest trimmed text that is sent to the API.
MinCleanupLength == 100

\* SkipsCleanup that skips empty text only.
SkipsCleanupOnlyEmpty(rawText) == Len(Trim(rawText)) = 0

\* cleanTextWithAI returns rawText without calling the API.
SkipsCleanup(rawText) == Len(Trim(rawText)) < MinCleanupLength

\* AddedTooMuch with the comparison lengthRatio >= 2.0.
AddedTooMuchFromTwo(cleanedText, rawText) ==
  Len(cleanedText) >= 2 * Len(rawText)

\* lengthRatio > 2.0, with lengthRatio = cleanedText.length / rawText.length
AddedTooMuch(cleanedText, rawText) ==
  QuotientGT(Len(cleanedText), Len(rawText), 1, 2, 1)

\* What cleanTextWithAI returns once the API replied with apiText.
CleanedResult(rawText, apiText) ==
  LET cleanedText == Trim(apiText)
  IN IF AddedTooMuch(cleanedText, rawText) THEN rawText ELSE cleanedText

\* A catch block that returns no text.
CleanupFallbackEmpty(rawText) == <<>>

\* The catch block of cleanTextWithAI.
CleanupFallback(rawText) == rawText

\* The value the map callback returns for a page.
PageResult(pageData, plainText) ==
  [ pageIndex  |-> pageData.pageIndex,
    plainText  |-> plainText,
    paragraphs |-> groupLinesIntoParagraphs(ContentLines(pageData.textLines)) ]

\* Every value stored in the first slot.
SlotOfFirst(k, order) == 1

\* Values stored in the order of fulfilment.
SlotOfArrival(k, order) == Len(order) + 1

\* Promise.all stores the value of the k-th promise at index k, whatever the
\* order in which the promises fulfil.
SlotOf(k, order) == k

\* Fulfilment as soon as one promise has fulfilled.
AnySettled(slots) == \E k \in DOMAIN slots : slots[k] # <<>>

\* Promise.all fulfils when every promise has.
AllSettled(slots) == \A k \in DOMAIN slots : slots[k] # <<>>

\* The array Promise.all fulfils with.
RECURSIVE CollectPages(_, _)
CollectPages(slots, k) ==
  IF k > Len(slots) THEN <<>> ELSE slots[k] \o CollectPages(slots, k + 1)

\* AiCleanedFlag that leaves the client out.
AiCleanedFlagRequested(u, client) == u

\* aiCleaned: useAI && !!anthropic
AiCleanedFlag(u, client) == u /\ client

SuccessResponse(documentId, pages, u, client) ==
  [ status |-> 200,
    body   |-> [ documentId    |-> documentId,
                 extractedText |-> [pages |-> pages],
                 pageCount     |-> Len(pages),
                 aiCleaned     |-> AiCleanedFlag(u, client) ] ]

ErrorResponse(message) ==
  [ status |-> 500,
    body   |-> [error |-> "Failed to extract text", details |-> message] ]

NoResponse == [ status |-> 0 ]

----------------------------------------------------------------------------
(* Inputs of a request: the pages the document engine returns *)

Newline == <<"\n">>
A48 == Repeat(<<"a">>, 48) \o Newline
A49 == Repeat(<<"a">>, 49) \o Newline
A50 == Repeat(<<"a">>, 50) \o Newline

PlainLine(c) == [contents |-> c, shape |-> PlainShape, gap |-> PlainGap]

LinesOf(cs) == BuildLines([k \in 1..Len(cs) |-> PlainLine(cs[k])], 1, <<>>)

\* A hyphenated word around four newline-only lines (10 characters of text),
\* a page of 99 characters, and a page of 100 characters with a run of
\* newline-only lines in it.
ShortPage == LinesOf(<<Exam, Newline, Newline, Newline, Newline, Ple>>)
Page99    == LinesOf(<<A49, A49>>)
Page100   == LinesOf(<<A50, Newline, Newline, Newline, A48>>)

EnginePages == {ShortPage, Page99, Page100}

\* The engine numbers the pages of its reply from 0.
EngineReplies ==
  UNION { { [k \in 1..n |-> [pageIndex |-> k - 1, textLines |-> f[k]]] :
              f \in [1..n -> EnginePages] } : n \in 0..MaxPages }

\* Texts the API may reply with to a page text r: r itself, r doubled, doubled
\* plus one character, tripled, doubled inside blanks, a short text, a text
\* with a run of newlines, and nothing.
ApiReplies(r) ==
  { r, r \o r, r \o r \o <<"x">>, r \o r \o r,
    <<" ">> \o r \o r \o <<" ", "\n">>,
    <<"o", "k">>, <<"a", "\n", "\n", "\n", "b">>, <<>> }

DocumentId == "abc123"

----------------------------------------------------------------------------
(* The segmenter run on its own *)

SegIdle ==
  /\ textLines = <<>>
  /\ paragraphs = <<>>
  /\ segOut = <<>>
  /\ segPc = "input"

NoPage == [pageIndex |-> 0, plainText |-> <<>>, paragraphs |-> <<>>]

PageIdle ==
  /\ pageLines = <<>>
  /\ pageOut = NoPage
  /\ pagePc = "input"

\* The two components as mounted: no document, nothing selected or extracted.
UiIdle ==
  /\ uploading = FALSE
  /\ uploadError = ""
  /\ upPending = {}
  /\ upFiles = <<>>
  /\ upSent = 0
  /\ upDelivered = 0
  /\ currentDocument = 0
  /\ queue = [doc |-> <<>>, uploading |-> <<>>, uploadError |-> <<>>, text |-> <<>>,
              loading |-> <<>>, error |-> <<>>, page |-> <<>>]
  /\ effectPending = FALSE
  /\ viewerLoads = {}
  /\ loadsStarted = 0
  /\ extractedText = <<>>
  /\ loading = FALSE
  /\ error = ""
  /\ selectedPage = 0
  /\ exPending = {}
  /\ exStarted = 0
  /\ exCompleted = <<>>
  /\ textOf = 0
  /\ errorOf = 0

ReqIdle ==
  /\ reqPc = "idle"
  /\ useAI = TRUE
  /\ pagesData = <<>>
  /\ inFlight = {}
  /\ pageSlots = <<>>
  /\ response = NoResponse
  /\ fetchCount = 0
  /\ aiCalls = <<>>
  /\ aiReply = <<>>
  /\ aiFailed = {}
  /\ segCalls = 0
  /\ settleOrder = <<>>

\* Any page of at most MaxLines content lines (the first line has no gap),
\* or one of the four-line pages with a gap on a threshold.
SegInit ==
  /\ \/ \E n \in 0..MaxLines : \E ch \in [1..n -> LineChoices] :
          /\ n >= 1 => ch[1].gap = PlainGap
          /\ TopsNonDecreasing(BuildLines(ch, 1, <<>>))
          /\ textLines = BuildLines(ch, 1, <<>>)
     \/ \E ch \in BoundaryPages : textLines = BuildLines(ch, 1, <<>>)
  /\ paragraphs = <<>>
  /\ segOut = <<>>
  /\ segPc = "input"
  /\ PageIdle
  /\ UiIdle
  /\ anthropic = FALSE
  /\ ReqIdle

\* One call of groupLinesIntoParagraphs(textLines).
SegRun ==
  /\ segPc = "input"
  /\ paragraphs' = GroupedParagraphs(textLines)
  /\ segOut' = groupLinesIntoParagraphs(textLines)
  /\ segPc' = "done"
  /\ UNCHANGED <<textLines, pageVars, uiVars, reqVars>>

SegNext == SegRun

SegSpec == SegInit /\ [][SegNext]_vars

----------------------------------------------------------------------------
(* One page put through the callback of processTextLines, without the API *)

\* A line of whitespace only: a space and a form feed.
Blank == <<" ", "\f">>
Empty == <<>>

\* Contents of the lines of a page: text, text that ends its line, a
\* newline-only line, a line of blanks and a line without contents.
PageContents == {Exam, EndDot, Newline, Blank, Empty}

\* A blank line takes the room of three lines of text.
BlankShape == [left |-> 10, width |-> 50, height |-> 30]

PageLine(c) ==
  [contents |-> c, shape |-> IF HasInk(c) THEN PlainShape ELSE BlankShape,
   gap |-> PlainGap]

PageLinesOf(cs) == BuildLines([k \in 1..Len(cs) |-> PageLine(cs[k])], 1, <<>>)

PageInit ==
  /\ \E n \in 0..MaxPageLines : \E cs \in [1..n -> PageContents] :
        pageLines = PageLinesOf(cs)
  /\ pageOut = NoPage
  /\ pagePc = "input"
  /\ SegIdle
  /\ UiIdle
  /\ anthropic = FALSE
  /\ ReqIdle

\* The callback for one page when plainText is rawText (lines 358-391).
PageRun ==
  /\ pagePc = "input"
  /\ pageOut' = PageResult([pageIndex |-> 0, textLines |-> pageLines],
                           RawText(pageLines))
  /\ pagePc' = "done"
  /\ UNCHANGED <<pageLines, segVars, uiVars, reqVars>>

PageNext == PageRun

PageSpec == PageInit /\ [][PageNext]_vars

----------------------------------------------------------------------------
(* One /api/documents/:documentId/extract request *)

Init ==
  /\ SegIdle
  /\ PageIdle
  /\ UiIdle
  /\ anthropic \in BOOLEAN
  /\ ReqIdle

\* The handler up to its first await: useAI is read from the body and the
\* document engine is asked for the pages' text.
ReceiveRequest(u) ==
  /\ reqPc = "idle"
  /\ useAI' = u
  /\ fetchCount' = fetchCount + 1
  /\ reqPc' = "fetching"
  /\ UNCHANGED <<segVars, pageVars, uiVars, anthropic, pagesData, inFlight, pageSlots, response,
                 aiCalls, aiReply, aiFailed, segCalls, settleOrder>>

\* A catch block that asks the engine a second time before it gives up.
FailRetriesOnce(message) ==
  IF fetchCount < 2
  THEN /\ fetchCount' = fetchCount + 1
       /\ UNCHANGED <<segVars, pageVars, uiVars, anthropic, reqPc, useAI, pagesData,
                      inFlight, pageSlots, response, aiCalls, aiReply, aiFailed,
                      segCalls, settleOrder>>
  ELSE /\ response' = ErrorResponse(message)
       /\ reqPc' = "responded"
       /\ UNCHANGED <<segVars, pageVars, uiVars, anthropic, useAI, pagesData, inFlight,
                      pageSlots, fetchCount, aiCalls, aiReply, aiFailed,
                      segCalls, settleOrder>>

\* The handler's catch block: nothing but the error reply.
Fail(message) ==
  /\ response' = ErrorResponse(message)
  /\ reqPc' = "responded"
  /\ UNCHANGED <<segVars, pageVars, uiVars, anthropic, useAI, pagesData, inFlight, pageSlots,
                 fetchCount, aiCalls, aiReply, aiFailed, segCalls, settleOrder>>

\* fetch rejects (the engine is unreachable).
FetchThrows == reqPc = "fetching" /\ Fail("fetch failed")

\* The engine answers with a status that is not OK: the handler throws.
FetchNotOk == reqPc = "fetching" /\ Fail("Text extraction failed: 404 Not Found")

\* The engine's body is not JSON: response.json() rejects.
FetchBadJson == reqPc = "fetching" /\ Fail("Unexpected token in JSON")

\* CallsApi without the length test.
CallsApiAnyLength(u, client, pageData) == u /\ client

\* A page's API call is issued when AI clean-up is on and its text is long enough.
CallsApi(u, client, pageData) ==
  u /\ client /\ ~SkipsCleanup(RawText(pageData.textLines))

\* The pages that fulfil without an API call, in page order: their slots are
\* filled one after the other.
RECURSIVE SettleFrom(_, _, _, _)
SettleFrom(pd, waiting, k, st) ==
  IF k > Len(pd) THEN st
  ELSE IF k \in waiting THEN SettleFrom(pd, waiting, k + 1, st)
  ELSE SettleFrom(pd, waiting, k + 1,
         [ slots |-> [st.slots EXCEPT ![SlotOf(k, st.order)] =
                        <<PageResult(pd[k], RawText(pd[k].textLines))>>],
           order |-> Append(st.order, k) ])

\* The engine's pages arrive and processTextLines runs up to the point where
\* only API calls are outstanding: every page's rawText is computed, the API
\* call of each long page is issued (when AI clean-up is on), and every other
\* page is segmented and fulfils its promise.
FetchOk(pd) ==
  /\ reqPc = "fetching"
  /\ pagesData' = pd
  /\ LET waiting == {k \in 1..Len(pd) : CallsApi(useAI, anthropic, pd[k])}
         st == SettleFrom(pd, waiting, 1,
                 [slots |-> [k \in 1..Len(pd) |-> <<>>], order |-> <<>>])
     IN /\ inFlight' = waiting
        /\ aiCalls' = [k \in 1..Len(pd) |-> IF k \in waiting THEN 1 ELSE 0]
        /\ pageSlots' = st.slots
        /\ settleOrder' = st.order
        /\ segCalls' = segCalls + Len(st.order)
  /\ aiReply' = [k \in 1..Len(pd) |-> <<>>]
  /\ reqPc' = "processing"
  /\ UNCHANGED <<segVars, pageVars, uiVars, anthropic, useAI, response, fetchCount, aiFailed>>

\* Page k's promise fulfils with plainText: the page is segmented and its
\* result stored.
Settle(k, plainText) ==
  /\ pageSlots' = [pageSlots EXCEPT ![SlotOf(k, settleOrder)] =
                     <<PageResult(pagesData[k], plainText)>>]
  /\ settleOrder' = Append(settleOrder, k)
  /\ segCalls' = segCalls + 1
  /\ inFlight' = inFlight \ {k}

\* The API replies to page k's call with apiText.
ApiReturns(k, apiText) ==
  /\ reqPc = "processing"
  /\ k \in inFlight
  /\ aiReply' = [aiReply EXCEPT ![k] = <<apiText>>]
  /\ Settle(k, CleanedResult(RawText(pagesData[k].textLines), apiText))
  /\ UNCHANGED <<segVars, pageVars, uiVars, anthropic, reqPc, useAI, pagesData, response,
                 fetchCount, aiCalls, aiFailed>>

\* Page k's API call throws, or its reply has no content block.
ApiThrows(k) ==
  /\ reqPc = "processing"
  /\ k \in inFlight
  /\ aiFailed' = aiFailed \cup {k}
  /\ Settle(k, CleanupFallback(RawText(pagesData[k].textLines)))
  /\ UNCHANGED <<segVars, pageVars, uiVars, anthropic, reqPc, useAI, pagesData, response,
                 fetchCount, aiCalls, aiReply>>

\* Promise.all has fulfilled: the handler replies.
Respond ==
  /\ reqPc = "processing"
  /\ AllSettled(pageSlots)
  /\ response' = SuccessResponse(DocumentId, CollectPages(pageSlots, 1),
                                 useAI, anthropic)
  /\ reqPc' = "responded"
  /\ UNCHANGED <<segVars, pageVars, uiVars, anthropic, useAI, pagesData, inFlight, pageSlots,
                 fetchCount, aiCalls, aiReply, aiFailed, segCalls, settleOrder>>

Next ==
  \/ \E u \in BOOLEAN : ReceiveRequest(u)
  \/ FetchThrows
  \/ FetchNotOk
  \/ FetchBadJson
  \/ \E pd \in EngineReplies : FetchOk(pd)
  \/ \E k \in inFlight :
       \E t \in ApiReplies(RawText(pagesData[k].textLines)) : ApiReturns(k, t)
  \/ \E k \in inFlight : ApiThrows(k)
  \/ Respond

Spec == Init /\ [][Next]_vars

----------------------------------------------------------------------------
(* The DocumentUpload and TextExtraction components inside App *)

Pdf == "application/pdf"
Png == "image/png"

\* const maxSize = 50 * 1024 * 1024
MaxUploadSize == 50 * 1024 * 1024

\* IsTooLarge that also turns away a file of exactly the maximum size.
IsTooLargeFromMax(size) == size >= MaxUploadSize

\* file.size > maxSize
IsTooLarge(size) == size > MaxUploadSize

\* Files the user may pick: an image, and a PDF of the maximum size or of
\* one byte more.
Files == { [type |-> Png, size |-> MaxUploadSize],
           [type |-> Pdf, size |-> MaxUploadSize],
           [type |-> Pdf, size |-> MaxUploadSize + 1] }

\* What the upload request may fail with: the backend's 500 body, or fetch
\* rejecting.
UploadFailures == {"Failed to upload document", "Failed to fetch"}

\* What the extraction request may fail with: the backend's 500 body, a body
\* without an error field, or fetch rejecting.
ExtractFailures == {"Failed to extract text", "Extraction failed", "Failed to fetch"}

\* Which of its five returns TextExtraction renders.
View ==
  IF currentDocument = 0 THEN "none"
  ELSE IF error # "" THEN "error"
  ELSE IF loading THEN "loading"
  ELSE IF extractedText = <<>> THEN "intro"
  ELSE "pages"

\* extractedText.pages[selectedPage] is undefined, so reading
\* currentPage.plainText throws while rendering and React unmounts the tree.
\* The variables then hold the state of the render that threw.
RenderThrows ==
  /\ View = "pages"
  /\ selectedPage \notin 0..(extractedText[1].pages - 1)

\* The state hooks of App, DocumentUpload and TextExtraction.
Hooks == {"doc", "uploading", "uploadError", "text", "loading", "error", "page"}

\* No update queued.
NoUpdates == [h \in Hooks |-> <<>>]

\* The state of the last render, per hook.  The text and the error carry the
\* document of the request they came from.
Shown ==
  [doc |-> currentDocument, uploading |-> uploading, uploadError |-> uploadError,
   text |-> [value |-> extractedText, of |-> textOf], loading |-> loading,
   error |-> [message |-> error, of |-> errorOf], page |-> selectedPage]

\* The values a setter call passes: set is a record of hook |-> value.  Every
\* setter of the three components is called with a value, none with a
\* function of the previous state, so of the updates queued on a hook the
\* last one decides the next render, and one that passes the value the hook
\* is left with changes nothing.
Enqueue(q, base, set) ==
  [h \in Hooks |->
     IF h \in DOMAIN set
     THEN IF set[h] = base[h] THEN <<>> ELSE <<set[h]>>
     ELSE q[h]]

\* The state a render of every queued update arrives at.
Applied(q, base) == [h \in Hooks |-> IF q[h] = <<>> THEN base[h] ELSE q[h][1]]

\* The render is committed: the hooks hold state s.
Commit(s) ==
  /\ currentDocument' = s.doc
  /\ uploading' = s.uploading
  /\ uploadError' = s.uploadError
  /\ extractedText' = s.text.value
  /\ textOf' = s.text.of
  /\ loading' = s.loading
  /\ error' = s.error.message
  /\ errorOf' = s.error.of
  /\ selectedPage' = s.page

\* The effect of TextExtraction that runs when documentId has changed: four
\* setter calls.
ResetOnDocumentChange ==
  [text |-> [value |-> <<>>, of |-> 0], error |-> [message |-> "", of |-> 0],
   page |-> 0, loading |-> FALSE]

\* The effect of App that runs when currentDocument has changed: loadDocument
\* of the document that was rendered, up to its await of NutrientViewer.load.
\* A call past the MaxLoads-th is one that returns at its first test or whose
\* load rejects at once: its catch block only logs.
StartLoad ==
  IF effectPending /\ loadsStarted < MaxLoads
  THEN /\ viewerLoads' = viewerLoads \cup {[id |-> loadsStarted + 1, doc |-> currentDocument]}
       /\ loadsStarted' = loadsStarted + 1
  ELSE UNCHANGED <<viewerLoads, loadsStarted>>

\* q after the pending effects, if any, have run: their updates are queued
\* behind those already there.
Flushed(q, base) ==
  IF effectPending THEN Enqueue(q, base, ResetOnDocumentChange) ELSE q

\* The pending effects run in a task of their own: the reset is queued and
\* loadDocument called; the render of the reset is a later task.
RunEffects ==
  /\ ~RenderThrows
  /\ effectPending
  /\ queue' = Flushed(queue, Shown)
  /\ effectPending' = FALSE
  /\ StartLoad
  /\ UNCHANGED <<rendered, uploadVars, exPending, exStarted, exCompleted,
                 segVars, pageVars, reqVars>>

\* React renders the queued updates in a task of its own: pending effects
\* run first, then one render takes every queued update, and the effects on
\* currentDocument are pending again when the document rendered has changed.
Render ==
  /\ ~RenderThrows
  /\ queue # NoUpdates
  /\ LET s == Applied(Flushed(queue, Shown), Shown)
     IN /\ Commit(s)
        /\ effectPending' = (s.doc # currentDocument)
  /\ queue' = NoUpdates
  /\ StartLoad
  /\ UNCHANGED <<upPending, upFiles, upSent, upDelivered, exPending, exStarted,
                 exCompleted, segVars, pageVars, reqVars>>

\* The hooks of the component that hook h belongs to.
HooksOfComponent(h) ==
  IF h = "doc" THEN {"doc"}
  ELSE IF h \in {"uploading", "uploadError"} THEN {"uploading", "uploadError"}
  ELSE {"text", "loading", "error", "page"}

\* Every setter call of set passes the value its hook shows, in a component
\* with no update queued: React drops such a call and schedules no render.
SchedulesNoRender(set) ==
  \A h \in DOMAIN set :
     /\ set[h] = Shown[h]
     /\ \A g \in HooksOfComponent(h) : queue[g] = <<>>

\* A click or change event whose handler calls the setters of set.  When
\* the calls schedule no render nothing happens: what is queued stays
\* queued and pending effects stay pending.  Otherwise React renders these
\* updates before the event returns, on top of the last render and ahead of
\* the updates queued by replies, which stay queued.  An update queued
\* earlier on a hook the handler sets is applied before the handler's and
\* so changes nothing; pending effects run before the render and their
\* updates are queued behind the handler's.
Discrete(set) ==
  IF SchedulesNoRender(set)
  THEN UNCHANGED <<rendered, queue, effectPending, viewerLoads, loadsStarted>>
  ELSE LET s == [h \in Hooks |-> IF h \in DOMAIN set THEN set[h] ELSE Shown[h]]
           q == [h \in Hooks |-> IF h \in DOMAIN set THEN <<>> ELSE queue[h]]
       IN /\ Commit(s)
          /\ queue' = Flushed(q, s)
          /\ effectPending' = FALSE
          /\ StartLoad

\* The continuation of an await calls the setters of set: the updates are
\* queued for a later render.  In a tree that a render error has unmounted
\* the calls do nothing.
Queued(set) ==
  /\ queue' = IF RenderThrows THEN queue ELSE Enqueue(queue, Shown, set)
  /\ UNCHANGED <<rendered, effectPending>>

\* The change event of the file input (enabled unless uploading) up to the
\* first await of handleFileSelect.  A run has at most MaxEvents file
\* selections and clicks on an extract button.
SelectFile(file) ==
  /\ ~RenderThrows
  /\ ~uploading
  /\ Len(upFiles) + exStarted < MaxEvents
  /\ upFiles' = Append(upFiles, file)
  /\ IF file.type # Pdf
     THEN /\ Discrete([uploadError |-> "Please select a PDF file"])
          /\ UNCHANGED <<upPending, upSent>>
     ELSE IF IsTooLarge(file.size)
     THEN /\ Discrete([uploadError |-> "File size must be less than 50MB"])
          /\ UNCHANGED <<upPending, upSent>>
     ELSE /\ Discrete([uploading |-> TRUE, uploadError |-> ""])
          /\ upPending' = upPending \cup {upSent + 1}
          /\ upSent' = upSent + 1
  /\ UNCHANGED <<upDelivered, exPending, exStarted, exCompleted,
                 segVars, pageVars, reqVars>>

\* The upload succeeded: onDocumentUploaded hands the new document to App,
\* whose handler calls setCurrentDocument, and the finally block runs.
UploadOk(id) ==
  /\ id \in upPending
  /\ upPending' = upPending \ {id}
  /\ upDelivered' = upDelivered + 1
  /\ Queued([doc |-> upDelivered + 1, uploading |-> FALSE])
  /\ UNCHANGED <<upFiles, upSent, viewerLoads, loadsStarted, exPending, exStarted,
                 exCompleted, segVars, pageVars, reqVars>>

\* UploadFails without the finally block.
UploadFailsKeepsFlag(id, message) ==
  /\ id \in upPending
  /\ upPending' = upPending \ {id}
  /\ Queued([uploadError |-> message])
  /\ UNCHANGED <<upFiles, upSent, upDelivered, viewerLoads, loadsStarted, exPending,
                 exStarted, exCompleted, segVars, pageVars, reqVars>>

\* The upload failed: the catch block, then the finally block.
UploadFails(id, message) ==
  /\ id \in upPending
  /\ upPending' = upPending \ {id}
  /\ Queued([uploadError |-> message, uploading |-> FALSE])
  /\ UNCHANGED <<upFiles, upSent, upDelivered, viewerLoads, loadsStarted, exPending,
                 exStarted, exCompleted, segVars, pageVars, reqVars>>

\* NutrientViewer.load of call l resolved: setInstance, then
\* setCurrentDocument with the document the call was made for.
ViewerLoaded(l) ==
  /\ l \in viewerLoads
  /\ viewerLoads' = viewerLoads \ {l}
  /\ Queued([doc |-> l.doc])
  /\ UNCHANGED <<loadsStarted, upPending, upFiles, upSent, upDelivered, exPending,
                 exStarted, exCompleted, segVars, pageVars, reqVars>>

\* NutrientViewer.unload or NutrientViewer.load of call l rejected: the catch
\* block of loadDocument only logs.
ViewerLoadFails(l) ==
  /\ l \in viewerLoads
  /\ viewerLoads' = viewerLoads \ {l}
  /\ UNCHANGED <<rendered, queue, effectPending, loadsStarted, upPending, upFiles,
                 upSent, upDelivered, exPending, exStarted, exCompleted,
                 segVars, pageVars, reqVars>>

\* A click on Extract Text, Try Again or Re-extract (the loading view has no
\* button): handleExtract up to its await, with the documentId rendered.
ClickExtract ==
  /\ ~RenderThrows
  /\ View \in {"intro", "error", "pages"}
  /\ Len(upFiles) + exStarted < MaxEvents
  /\ exPending' = exPending \cup {[id |-> exStarted + 1, documentId |-> currentDocument]}
  /\ exStarted' = exStarted + 1
  /\ Discrete([loading |-> TRUE, error |-> [message |-> "", of |-> 0]])
  /\ UNCHANGED <<exCompleted, upPending, upFiles, upSent, upDelivered,
                 segVars, pageVars, reqVars>>

\* The reply to request r arrived with n pages: the rest of the try block,
\* then the finally block.  onExtractionComplete is called in an unmounted
\* tree as well.
ExtractOk(r, n) ==
  /\ r \in exPending
  /\ exPending' = exPending \ {r}
  /\ exCompleted' = Append(exCompleted, [of |-> r.documentId, at |-> currentDocument])
  /\ Queued([text |-> [value |-> <<[pages |-> n]>>, of |-> r.documentId],
             page |-> 0, loading |-> FALSE])
  /\ UNCHANGED <<exStarted, viewerLoads, loadsStarted, upPending, upFiles, upSent,
                 upDelivered, segVars, pageVars, reqVars>>

\* Request r failed: the catch block, then the finally block.
ExtractFails(r, message) ==
  /\ r \in exPending
  /\ exPending' = exPending \ {r}
  /\ Queued([error |-> [message |-> message, of |-> r.documentId], loading |-> FALSE])
  /\ UNCHANGED <<exStarted, exCompleted, viewerLoads, loadsStarted, upPending, upFiles,
                 upSent, upDelivered, segVars, pageVars, reqVars>>

\* A click on Previous (disabled on the first page).
PreviousPage ==
  /\ ~RenderThrows
  /\ View = "pages"
  /\ selectedPage # 0
  /\ Discrete([page |-> Max(0, selectedPage - 1)])
  /\ UNCHANGED <<exPending, exStarted, exCompleted, upPending, upFiles, upSent,
                 upDelivered, segVars, pageVars, reqVars>>

\* A click on Next (disabled on the last page).
NextPage ==
  /\ ~RenderThrows
  /\ View = "pages"
  /\ selectedPage # extractedText[1].pages - 1
  /\ Discrete([page |-> Min(extractedText[1].pages - 1, selectedPage + 1)])
  /\ UNCHANGED <<exPending, exStarted, exCompleted, upPending, upFiles, upSent,
                 upDelivered, segVars, pageVars, reqVars>>

UiInit ==
  /\ UiIdle
  /\ SegIdle
  /\ PageIdle
  /\ anthropic = FALSE
  /\ ReqIdle

UiNext ==
  \/ \E file \in Files : SelectFile(file)
  \/ RunEffects
  \/ Render
  \/ \E l \in viewerLoads : ViewerLoaded(l)
  \/ \E l \in viewerLoads : ViewerLoadFails(l)
  \/ \E id \in upPending : UploadOk(id)
  \/ \E id \in upPending : \E m \in UploadFailures : UploadFails(id, m)
  \/ ClickExtract
  \/ \E r \in exPending : \E n \in 0..MaxViewPages : ExtractOk(r, n)
  \/ \E r \in exPending : \E m \in ExtractFailures : ExtractFails(r, m)
  \/ PreviousPage
  \/ NextPage

UiSpec == UiInit /\ [][UiNext]_vars

----------------------------------------------------------------------------
(* Properties of groupLinesIntoParagraphs, checked under SegSpec *)

RECURSIVE ConcatLines(_)
ConcatLines(ps) == IF ps = <<>> THEN <<>> ELSE Head(ps).lines \o ConcatLines(Tail(ps))

RECURSIVE SumLineCounts(_)
SumLineCounts(out) ==
  IF out = <<>> THEN 0 ELSE Head(out).lineCount + SumLineCounts(Tail(out))

\* Index of the first input line of the k-th returned paragraph.
StartOf(out, k) == 1 + SumLineCounts(SubSeq(out, 1, k - 1))

ParagraphStarts(out) == {StartOf(out, k) : k \in 1..Len(out)}

\* The returned paragraph that holds input line i.
ParagraphOfLine(out, i) ==
  out[CHOOSE k \in 1..Len(out) :
        StartOf(out, k) <= i /\ i < StartOf(out, k) + out[k].lineCount]

\* No break signal other than the very large gap fires at line i.
OnlyVeryLargeGapAt(ls, i) ==
  /\ 2 * GapAt(ls, i) * Len(ls) > 3 * SumHeights(ls)
  /\ ~GapRatioLarge(ls, i)
  /\ ~HeightChanged(ls, i)
  /\ ~IndentChanged(ls, i)
  /\ ~(GapRatioMedium(ls, i) /\ prevEndsWithPunctuation(ls, i))

\* C1: the paragraphs partition a non-empty input in order: their lines,
\* concatenated, are the input lines; no paragraph is empty; each lineCount is
\* the number of lines of its paragraph and the lineCounts sum to the input's
\* length.
C1_Partition ==
  (segPc = "done" /\ Len(textLines) >= 1) =>
    /\ ConcatLines(paragraphs) = textLines
    /\ Len(segOut) = Len(paragraphs)
    /\ \A k \in 1..Len(paragraphs) :
         /\ Len(paragraphs[k].lines) >= 1
         /\ segOut[k].lineCount = Len(paragraphs[k].lines)
    /\ SumLineCounts(segOut) = Len(textLines)

\* Three lines were grouped into a two-line paragraph and a one-line paragraph.
C1_Witness ==
  /\ segPc = "done"
  /\ Len(textLines) = 3
  /\ Len(segOut) = 2
  /\ segOut[1].lineCount = 2

\* Number of whitespace-separated words of s.
WordCount(s) ==
  Cardinality({i \in 1..Len(s) :
                 s[i] \notin Whitespace /\ (i = 1 \/ s[i - 1] \in Whitespace)})

\* The documented heading rule: short, few words, no closing punctuation, at
\* most two lines.
HeadingRule(p) ==
  /\ Len(Trim(p.text)) < 100
  /\ WordCount(p.text) < 15
  /\ ~EndsWithPunctuation(Trim(p.text))
  /\ p.lineCount <= 2

\* The documented level of a heading of w words.
HeadingLevel(w) == IF w <= 5 THEN 1 ELSE IF w <= 8 THEN 2 ELSE IF w <= 12 THEN 3 ELSE 4

\* C7: every returned paragraph carries a kind, "heading" exactly when the
\* heading rule holds of it, otherwise "paragraph" with a null level.
C7_KindAssigned ==
  segPc = "done" =>
    \A k \in 1..Len(segOut) :
      /\ "kind" \in DOMAIN segOut[k]
      /\ "level" \in DOMAIN segOut[k]
      /\ IF HeadingRule(segOut[k])
         THEN segOut[k].kind = "heading"
         ELSE segOut[k].kind = "paragraph" /\ segOut[k].level = "null"

\* C8: every paragraph that the heading rule makes a heading carries the
\* level its word count gives: 1 up to 5 words, 2 up to 8, 3 up to 12, else 4.
C8_LevelByWordCount ==
  segPc = "done" =>
    \A k \in 1..Len(segOut) :
      HeadingRule(segOut[k]) =>
        /\ "level" \in DOMAIN segOut[k]
        /\ segOut[k].level = HeadingLevel(WordCount(segOut[k].text))

Example     == <<"e", "x", "a", "m", "p", "l", "e">>
ExamPle     == <<"e", "x", "a", "m", "-", "p", "l", "e">>
ExamGapPle  == <<"e", "x", "a", "m", "-", " ", "p", "l", "e">>

\* Line i follows the line "exam-" with "ple" and stays in its paragraph.
ExamPleJoinedAt(i) ==
  /\ textLines[i - 1].contents = Exam
  /\ textLines[i].contents = Ple
  /\ i \notin ParagraphStarts(segOut)

\* C9 as stated: "exam-" followed by "ple" without a break gives a paragraph
\* text that contains "example".
C9_AsStated ==
  segPc = "done" =>
    \A i \in 2..Len(textLines) :
      ExamPleJoinedAt(i) => Contains(ParagraphOfLine(segOut, i).text, Example)

\* C9 as amended: a line that follows a line whose trimmed contents end with
\* "-" and stays in its paragraph is joined to it with nothing in between and
\* the hyphen kept; "exam-" then "ple" gives "exam-ple", neither "example"
\* nor "exam- ple".
C9_HyphenKept ==
  segPc = "done" =>
    \A i \in 2..Len(textLines) :
      LET text == ParagraphOfLine(segOut, i).text IN
        /\ (EndsWithHyphen(Trim(textLines[i - 1].contents))
              /\ i \notin ParagraphStarts(segOut))
             => Contains(text, TrimStart(textLines[i - 1].contents)
                                 \o TrimEnd(textLines[i].contents))
        /\ ExamPleJoinedAt(i) =>
             /\ Contains(text, ExamPle)
             /\ ~Contains(text, Example)
             /\ ~Contains(text, ExamGapPle)

\* "exam-" and "ple" were joined into one paragraph.
C9_Witness ==
  /\ segPc = "done"
  /\ \E i \in 2..Len(textLines) : ExamPleJoinedAt(i)

\* C10: two adjacent lines whose gap exceeds 1.5 times the average height
\* are in different paragraphs: the second one starts a paragraph.
C10_LargeGapSplits ==
  segPc = "done" =>
    \A i \in 2..Len(textLines) :
      (2 * (textLines[i].top - textLines[i - 1].top - textLines[i - 1].height)
         * Len(textLines) > 3 * SumHeights(textLines))
        => i \in ParagraphStarts(segOut)

\* A gap above 1.5 times the average height split two lines where no other
\* signal fired.
C10_Witness ==
  /\ segPc = "done"
  /\ \E i \in 2..Len(textLines) :
       OnlyVeryLargeGapAt(textLines, i) /\ i \in ParagraphStarts(segOut)

\* The box of a line.
BoxOf(line) ==
  [left |-> line.left, top |-> line.top, width |-> line.width,
   height |-> line.height]

\* C11: a page with a single content line comes back as exactly one
\* paragraph of one line, holding that line's trimmed text and that line's
\* box; the average gap, which has no value for one line, is never used.
C11_SingleLine ==
  (segPc = "done" /\ Len(textLines) = 1) =>
    segOut = << [ text      |-> Trim(textLines[1].contents),
                  bbox      |-> BoxOf(textLines[1]),
                  lineCount |-> 1 ] >>

\* A single line "End.\n" was segmented into the one paragraph "End.".
C11_Witness ==
  /\ segPc = "done"
  /\ Len(textLines) = 1
  /\ textLines[1].contents = EndDot
  /\ Len(segOut) = 1
  /\ segOut[1].text = <<"E", "n", "d", ".">>
  /\ segOut[1].lineCount = 1

\* Box b encloses the box of line l on all four sides.
Encloses(b, l) ==
  /\ b.left <= l.left
  /\ l.left + l.width <= b.left + b.width
  /\ b.top <= l.top
  /\ l.top + l.height <= b.top + b.height

\* C16: for lines whose tops do not decrease, the box of every returned
\* paragraph encloses the box of each line grouped into that paragraph.
C16_BoxEnclosesLines ==
  (segPc = "done" /\ TopsNonDecreasing(textLines)) =>
    \A k \in 1..Len(segOut) :
      \A j \in 1..Len(paragraphs[k].lines) :
        Encloses(segOut[k].bbox, paragraphs[k].lines[j])

\* s from its first to its last character that is no whitespace.
Stripped(s) ==
  LET ink == {i \in 1..Len(s) : s[i] \notin Whitespace}
  IN IF ink = {} THEN <<>>
     ELSE SubSeq(s, CHOOSE i \in ink : \A j \in ink : i <= j,
                    CHOOSE i \in ink : \A j \in ink : j <= i)

\* The gap above input line i, and the sum of the gaps above lines 2..n.
GapOf(i) ==
  textLines[i].top - textLines[i - 1].top - textLines[i - 1].height

RECURSIVE GapTotal(_)
GapTotal(n) == IF n < 2 THEN 0 ELSE GapTotal(n - 1) + GapOf(n)

TotalGap == GapTotal(Len(textLines))

\* x / avgGap > num / den for avgGap = TotalGap / (n - 1): a positive x over
\* a zero avgGap is infinite, a zero x over it has no value, and a negative
\* avgGap turns the comparison round.  For an x exactly num / den times the
\* average, the computed ratio is above num / den when the two roundings
\* leave it there.
RatioAbove(x, num, den) ==
  LET cnt == Len(textLines) - 1
  IN CASE TotalGap = 0 -> x > 0
       [] TotalGap # 0 /\ den * x * cnt = num * TotalGap ->
            QuotientTieAbove(Abs(TotalGap), cnt, num, den)
       [] TotalGap > 0 /\ den * x * cnt # num * TotalGap ->
            den * x * cnt > num * TotalGap
       [] OTHER -> den * x * cnt < num * TotalGap

\* The last character of c that is no whitespace, "" if there is none.
LastInk(c) == LET t == Stripped(c) IN IF t = <<>> THEN "" ELSE t[Len(t)]

HeightSignal(i) ==
  5 * Abs(textLines[i].height - textLines[i - 1].height) * Len(textLines)
    > SumHeights(textLines)

IndentSignal(i) == Abs(textLines[i].left - textLines[i - 1].left) > 30

TallGapSignal(i) == 2 * GapOf(i) * Len(textLines) > 3 * SumHeights(textLines)

\* One of the five signals fires at line i, each measured against line i-1
\* and the averages of the whole input.
BreakSignal(i) ==
  \/ RatioAbove(GapOf(i), 3, 2)
  \/ HeightSignal(i)
  \/ IndentSignal(i)
  \/ (RatioAbove(GapOf(i), 6, 5) /\ LastInk(textLines[i - 1].contents) \in {".", "!", "?"})
  \/ TallGapSignal(i)

\* C23: a paragraph starts at a line after the first exactly when one of the
\* five signals fires there: gap ratio above 1.5, height change above 0.2,
\* indent change above 30, gap ratio above 1.2 after closing punctuation, or
\* a gap above 1.5 average heights.
C23_BreakIffSignal ==
  segPc = "done" =>
    \A i \in 2..Len(textLines) : i \in ParagraphStarts(segOut) <=> BreakSignal(i)

\* Three lines, the second indented by more than 30 and the third as far in
\* as the second: a break at the second line and none at the third.
C23_Witness ==
  /\ segPc = "done"
  /\ Len(textLines) = 3
  /\ IndentSignal(2)
  /\ textLines[3].left = textLines[2].left
  /\ Abs(textLines[3].left - textLines[1].left) > 30
  /\ ParagraphStarts(segOut) = {1, 2}

\* C24 as stated: with an average gap of zero or less every pair of lines
\* with a gap of zero or more is split.
C24_AsStated ==
  segPc = "done" =>
    \A i \in 2..Len(textLines) :
      (TotalGap <= 0 /\ GapOf(i) >= 0) => i \in ParagraphStarts(segOut)

\* C24: with an average gap of zero a positive gap splits; a zero gap over a
\* zero average, and a gap of zero or more over a negative average, fire no
\* gap-ratio signal, so such a pair is split only by one of the other signals.
C24_ZeroAverageGap ==
  segPc = "done" =>
    \A i \in 2..Len(textLines) :
      /\ (TotalGap = 0 /\ GapOf(i) > 0) => i \in ParagraphStarts(segOut)
      /\ ( /\ TotalGap < 0 \/ (TotalGap = 0 /\ GapOf(i) = 0)
           /\ GapOf(i) >= 0
           /\ ~HeightSignal(i) /\ ~IndentSignal(i) /\ ~TallGapSignal(i) )
         => i \notin ParagraphStarts(segOut)

\* Gaps of -5 and 5 between three like lines: the average gap is zero and
\* the third line, with no other signal, starts a paragraph.
C24_Witness ==
  /\ segPc = "done"
  /\ Len(textLines) = 3
  /\ TotalGap = 0
  /\ GapOf(3) > 0
  /\ ~HeightSignal(3) /\ ~IndentSignal(3) /\ ~TallGapSignal(3)
  /\ 3 \in ParagraphStarts(segOut)

\* The contents of the first n of a paragraph's lines, each after the first
\* behind one space, or behind nothing when the line before it ends in "-".
RECURSIVE JoinedText(_, _)
JoinedText(ls, n) ==
  IF n = 0 THEN <<>>
  ELSE IF n = 1 THEN ls[1].contents
  ELSE JoinedText(ls, n - 1)
         \o (IF LastInk(ls[n - 1].contents) = "-" THEN <<>> ELSE <<" ">>)
         \o ls[n].contents

\* C25: the text of a paragraph is its lines' contents in order, each line
\* after the first behind exactly one space, or behind nothing when the line
\* before it ends in a hyphen once trimmed; the whole is trimmed.
C25_ParagraphText ==
  segPc = "done" =>
    \A k \in 1..Len(segOut) :
      segOut[k].text =
        Stripped(JoinedText(paragraphs[k].lines, Len(paragraphs[k].lines)))

\* "ple", "exam-" and "End.\n" in one paragraph: "ple exam-End.".
C25_Witness ==
  /\ segPc = "done"
  /\ Len(segOut) = 1
  /\ [i \in 1..Len(textLines) |-> textLines[i].contents] = <<Ple, Exam, EndDot>>
  /\ segOut[1].text = Ple \o <<" ">> \o Exam \o <<"E", "n", "d", ".">>

\* C26: the box of a paragraph starts at the least left and ends at the
\* greatest right edge of its lines, its top is the first line's top and its
\* bottom is the last line's bottom.
C26_BoxExtents ==
  segPc = "done" =>
    \A k \in 1..Len(segOut) :
      LET ls == paragraphs[k].lines
          b  == segOut[k].bbox
      IN /\ \E j \in 1..Len(ls) : b.left = ls[j].left
         /\ \A j \in 1..Len(ls) : b.left <= ls[j].left
         /\ \E j \in 1..Len(ls) : b.left + b.width = ls[j].left + ls[j].width
         /\ \A j \in 1..Len(ls) : ls[j].left + ls[j].width <= b.left + b.width
         /\ b.top = ls[1].top
         /\ b.top + b.height = ls[Len(ls)].top + ls[Len(ls)].height

\* A paragraph of two lines with different left and right edges.
C26_Witness ==
  /\ segPc = "done"
  /\ \E k \in 1..Len(segOut) :
       /\ Len(paragraphs[k].lines) = 2
       /\ paragraphs[k].lines[1].left < paragraphs[k].lines[2].left
       /\ paragraphs[k].lines[1].left + paragraphs[k].lines[1].width
            < paragraphs[k].lines[2].left + paragraphs[k].lines[2].width
       /\ segOut[k].bbox.width > paragraphs[k].lines[2].width

----------------------------------------------------------------------------
(* Properties of one page, checked under PageSpec *)

\* The contents of the first k lines, one after the other.
RECURSIVE Concatenated(_, _)
Concatenated(ls, k) ==
  IF k = 0 THEN <<>> ELSE Concatenated(ls, k - 1) \o ls[k].contents

\* The last position before i that holds no newline, 0 if there is none.
LastOtherBefore(s, i) ==
  CHOOSE j \in 0..(i - 1) :
    /\ j = 0 \/ s[j] # "\n"
    /\ \A m \in (j + 1)..(i - 1) : s[m] = "\n"

\* s with every newline beyond the second of its run left out.
SqueezedNewlines(s) ==
  LET InPlace(i) == s[i] # "\n" \/ i - LastOtherBefore(s, i) <= 2
      idx == SelectSeq([i \in 1..Len(s) |-> i], InPlace)
  IN [j \in 1..Len(idx) |-> s[idx[j]]]

NoNewlineRun(s) ==
  \A i \in 1..(Len(s) - 2) : ~(s[i] = "\n" /\ s[i + 1] = "\n" /\ s[i + 2] = "\n")

Unpadded(s) == s = <<>> \/ (s[1] \notin Whitespace /\ s[Len(s)] \notin Whitespace)

\* C12: the raw plain text of a page is the contents of all its lines in
\* order with nothing between them, each run of three or more newlines cut
\* to two, then stripped of surrounding whitespace; it holds no run of three
\* newlines, whatever number of newline-only lines follow each other.
C12_RawText ==
  pagePc = "done" =>
    /\ pageOut.plainText =
         Stripped(SqueezedNewlines(Concatenated(pageLines, Len(pageLines))))
    /\ NoNewlineRun(pageOut.plainText)

\* Four newline-only lines between two lines of text left two newlines.
C12_Witness ==
  /\ pagePc = "done"
  /\ [k \in 1..Len(pageLines) |-> pageLines[k].contents]
       = <<Exam, Newline, Newline, Newline, Newline, Exam>>
  /\ pageOut.plainText = Exam \o <<"\n", "\n">> \o Exam

\* The lines that carry a character other than whitespace.
NonBlankLines(ls) == SelectSeq(ls, LAMBDA l : HasInk(l.contents))

\* C19: lines that are empty or hold only whitespace are in no paragraph and
\* in no average (the paragraphs are those of the other lines alone, and
\* their line counts add up to the number of the other lines), while the
\* plain text is built from every line, the blank ones included.
C19_BlankLinesLeftOut ==
  pagePc = "done" =>
    /\ pageOut.paragraphs = groupLinesIntoParagraphs(NonBlankLines(pageLines))
    /\ SumLineCounts(pageOut.paragraphs) = Len(NonBlankLines(pageLines))
    /\ \A k \in 1..Len(pageOut.paragraphs) : HasInk(pageOut.paragraphs[k].text)
    /\ pageOut.plainText =
         Trim(CollapseNewlines(Concatenated(pageLines, Len(pageLines))))

\* Two lines of text with an empty line, a line of blanks and a newline-only
\* line between them: two paragraphs of one line each, and a plain text that
\* holds the blank and the newlines.
C19_Witness ==
  /\ pagePc = "done"
  /\ [k \in 1..Len(pageLines) |-> pageLines[k].contents]
       = <<Exam, Empty, Blank, Newline, Newline, Exam>>
  /\ Len(pageOut.paragraphs) = 2
  /\ pageOut.paragraphs[1].lineCount = 1
  /\ pageOut.plainText = Exam \o <<" ", "\f", "\n", "\n">> \o Exam

----------------------------------------------------------------------------
(* Properties of a request, checked under Spec *)

Pages == 1..Len(pagesData)

RawOf(k) == RawText(pagesData[k].textLines)

\* Page k's promise has fulfilled.
Settled(k) == k \in DOMAIN pageSlots /\ pageSlots[k] # <<>>

Succeeded == reqPc = "responded" /\ response.status = 200

ResponsePages == response.body.extractedText.pages

\* C2 as stated: a reply longer than twice the page text is discarded, a
\* reply at most twice as long is used.
C2_AsStated ==
  \A k \in Pages :
    (Settled(k) /\ aiReply[k] # <<>>) =>
      LET reply == aiReply[k][1] IN
        /\ Len(reply) > 2 * Len(RawOf(k)) => pageSlots[k][1].plainText = RawOf(k)
        /\ Len(reply) <= 2 * Len(RawOf(k)) => pageSlots[k][1].plainText = Trim(reply)

\* C2 as amended: the reply is trimmed first; a trimmed reply longer than
\* twice the page text is discarded and plainText is the page text, a trimmed
\* reply at most twice as long is the plainText.
C2_TrimmedRatioGuard ==
  \A k \in Pages :
    (Settled(k) /\ aiReply[k] # <<>>) =>
      LET cleaned == Trim(aiReply[k][1]) IN
        /\ Len(cleaned) > 2 * Len(RawOf(k)) => pageSlots[k][1].plainText = RawOf(k)
        /\ Len(cleaned) <= 2 * Len(RawOf(k)) => pageSlots[k][1].plainText = cleaned

\* A request was answered where the reply to one page was the page text
\* tripled and the reply to another was the page text doubled.
C2_Witness ==
  /\ Succeeded
  /\ \E k \in Pages :
       /\ aiReply[k] = <<RawOf(k) \o RawOf(k) \o RawOf(k)>>
       /\ ResponsePages[k].plainText = RawOf(k)
  /\ \E k \in Pages :
       /\ aiReply[k] = <<RawOf(k) \o RawOf(k)>>
       /\ ResponsePages[k].plainText = RawOf(k) \o RawOf(k)

\* C3: a page whose API call threw has its raw text as plainText, the
\* request is never answered with an error because of it, and once no call is
\* outstanding the reply is sent and holds a result for every page.
C3_FailureFallsBack ==
  /\ \A k \in aiFailed : Settled(k) /\ pageSlots[k][1].plainText = RawOf(k)
  /\ aiFailed # {} => response.status # 500
  /\ (aiFailed # {} /\ reqPc = "processing" /\ inFlight = {}) => ENABLED Respond
  /\ (aiFailed # {} /\ reqPc = "responded") =>
       /\ Succeeded
       /\ Len(ResponsePages) = Len(pagesData)
       /\ \A k \in aiFailed : ResponsePages[k].plainText = RawOf(k)

\* A request with a failed API call was answered.
C3_Witness == Succeeded /\ aiFailed # {}

\* C4: a page whose trimmed raw text is under 100 characters gets no API
\* call and its plainText is its raw text, also when AI clean-up is on.
C4_ShortTextSkipped ==
  \A k \in Pages :
    Len(Trim(RawOf(k))) < 100 =>
      /\ aiCalls[k] = 0
      /\ aiReply[k] = <<>>
      /\ Settled(k) /\ pageSlots[k][1].plainText = RawOf(k)
      /\ Succeeded => ResponsePages[k].plainText = RawOf(k)

\* With AI clean-up on, a request holding a page of 99 characters and a page
\* that was sent to the API was answered.
C4_Witness ==
  /\ Succeeded /\ useAI /\ anthropic
  /\ \E k \in Pages : Len(RawOf(k)) = 99 /\ aiCalls[k] = 0
  /\ \E k \in Pages : aiCalls[k] = 1

\* What page k's plainText has to be, given what its own API call did.
ExpectedPlainText(k) ==
  IF aiReply[k] = <<>> THEN RawOf(k) ELSE CleanedResult(RawOf(k), aiReply[k][1])

\* C5: the pages of the reply are in the engine's page order whatever the
\* order of fulfilment: the k-th one has the k-th page's pageIndex, plainText
\* and paragraphs.
C5_PageOrder ==
  Succeeded =>
    /\ Len(ResponsePages) = Len(pagesData)
    /\ \A k \in Pages :
         /\ ResponsePages[k].pageIndex = pagesData[k].pageIndex
         /\ ResponsePages[k].plainText = ExpectedPlainText(k)
         /\ ResponsePages[k].paragraphs =
              groupLinesIntoParagraphs(ContentLines(pagesData[k].textLines))

\* A request was answered whose second page fulfilled before its first.
C5_Witness ==
  /\ Succeeded
  /\ Len(settleOrder) >= 2
  /\ settleOrder[1] = 2
  /\ settleOrder[2] = 1
  /\ aiReply[1] # aiReply[2]

\* C6: nothing is sent before the end; a reply is either a success with one
\* PageResult per engine page and that pageCount, or an error without pages,
\* sent before any page was segmented or sent to the API.
C6_NoPartialResult ==
  /\ reqPc # "responded" => response = NoResponse
  /\ reqPc = "responded" =>
       \/ /\ response.status = 200
          /\ Len(ResponsePages) = Len(pagesData)
          /\ response.body.pageCount = Len(pagesData)
          /\ segCalls = Len(pagesData)
       \/ /\ response.status = 500
          /\ "extractedText" \notin DOMAIN response.body
          /\ segCalls = 0
          /\ pagesData = <<>> /\ aiCalls = <<>>

\* A request of two pages, one of them sent to the API, was answered.
C6_Witness ==
  /\ Succeeded
  /\ Len(pagesData) >= 2
  /\ \E k \in Pages : aiCalls[k] = 1

\* The API replied to page k and the reply passed the length guard.
RewriteUsed(k) ==
  /\ aiReply[k] # <<>>
  /\ ~AddedTooMuch(Trim(aiReply[k][1]), RawOf(k))

\* The API replied to page k and the reply was discarded as too long.
RewriteRejected(k) ==
  /\ aiReply[k] # <<>>
  /\ AddedTooMuch(Trim(aiReply[k][1]), RawOf(k))

\* C13 as stated: every plainText of a reply is free of runs of three
\* newlines and of surrounding whitespace, raw or rewritten.
C13_AsStated ==
  Succeeded =>
    \A k \in Pages :
      /\ NoNewlineRun(ResponsePages[k].plainText)
      /\ Unpadded(ResponsePages[k].plainText)

\* C13: every plainText of a reply is free of surrounding whitespace; a raw
\* text is free of runs of three newlines; a rewritten text is the API's
\* reply stripped of surrounding whitespace, its newline runs as they came.
C13_TrimmedRunsOnlyRaw ==
  Succeeded =>
    \A k \in Pages :
      /\ Unpadded(ResponsePages[k].plainText)
      /\ ~RewriteUsed(k) =>
           /\ ResponsePages[k].plainText = RawOf(k)
           /\ NoNewlineRun(ResponsePages[k].plainText)
      /\ RewriteUsed(k) =>
           ResponsePages[k].plainText = Stripped(aiReply[k][1])

\* A reply holds a raw text with a newline-only run cut to two and a
\* rewritten text that was stripped of its surrounding whitespace.
C13_Witness ==
  /\ Succeeded
  /\ \E k \in Pages :
       /\ ~RewriteUsed(k)
       /\ Contains(ResponsePages[k].plainText, <<"\n", "\n">>)
  /\ \E k \in Pages :
       /\ RewriteUsed(k)
       /\ aiReply[k][1] # ResponsePages[k].plainText

\* C15: aiCleaned is true only if the API's text became the plainText of at
\* least one page, and false when every page kept its original text.
C15_AiCleanedMeansRewritten ==
  Succeeded => (response.body.aiCleaned <=> \E k \in Pages : RewriteUsed(k))

\* C17: a page has at most one API call: one exactly when AI clean-up is on,
\* the client exists and the page's trimmed raw text has 100 characters or
\* more; after a failure or a discarded reply the page has fulfilled with
\* that one call and none is outstanding.
C17_OneCallPerPage ==
  \A k \in Pages :
    /\ aiCalls[k] <= 1
    /\ aiCalls[k] = 1 <=> (useAI /\ anthropic /\ Len(Stripped(RawOf(k))) >= 100)
    /\ (k \in aiFailed \/ RewriteRejected(k)) =>
         /\ aiCalls[k] = 1
         /\ k \notin inFlight
         /\ Settled(k)

\* A request was answered in which one page's call failed, another page's
\* reply was discarded, and each of the two had one call.
C17_Witness ==
  /\ Succeeded
  /\ \E k \in aiFailed : aiCalls[k] = 1
  /\ \E k \in Pages : RewriteRejected(k) /\ aiCalls[k] = 1

\* C18: the engine is asked exactly once per request and nothing is done
\* with pages before its answer; when the fetch fails the request ends with
\* status 500 'Failed to extract text', one fetch, no page segmented and no
\* API call.
C18_FetchOnceFirst ==
  /\ fetchCount <= 1
  /\ reqPc # "idle" => fetchCount = 1
  /\ reqPc \in {"idle", "fetching"} =>
       /\ segCalls = 0 /\ aiCalls = <<>> /\ inFlight = {}
       /\ pagesData = <<>> /\ pageSlots = <<>>
  /\ (reqPc = "responded" /\ response.status # 200) =>
       /\ response.status = 500
       /\ response.body.error = "Failed to extract text"
       /\ fetchCount = 1
       /\ segCalls = 0 /\ aiCalls = <<>> /\ inFlight = {}
       /\ pagesData = <<>> /\ pageSlots = <<>>

\* The engine answered 404 and the request ended with the error reply.
C18_Witness ==
  /\ reqPc = "responded"
  /\ response.status = 500
  /\ response.body.details = "Text extraction failed: 404 Not Found"
  /\ fetchCount = 1

\* C20: a page's result is fixed by its own lines and its own API outcome:
\* at the moment a step leaves page k fulfilled its value is the PageResult
\* of page k's lines and page k's reply, and a step taken for another page
\* leaves the value of a fulfilled page as it was.
C20_PagesIndependent ==
  [][ \A k \in 1..Len(pagesData') :
        /\ (k \in DOMAIN pageSlots' /\ pageSlots'[k] # <<>>) =>
             pageSlots'[k][1] =
               PageResult(pagesData'[k],
                          IF aiReply'[k] = <<>>
                          THEN RawText(pagesData'[k].textLines)
                          ELSE CleanedResult(RawText(pagesData'[k].textLines),
                                             aiReply'[k][1]))
        /\ Settled(k) => pageSlots'[k] = pageSlots[k] ]_vars

\* Two pages with the same lines were answered, the second one first: the
\* second page's call failed and it kept its raw text, the first page's
\* reply was used.
C20_Witness ==
  /\ Succeeded
  /\ Len(pagesData) = 2
  /\ pagesData[1].textLines = pagesData[2].textLines
  /\ settleOrder = <<2, 1>>
  /\ 2 \in aiFailed
  /\ RewriteUsed(1)
  /\ ResponsePages[2].plainText = RawOf(2)
  /\ ResponsePages[1].plainText # RawOf(1)

\* C21: with useAI false, or without a client, no page is sent to the API,
\* every page's plainText is its raw text and aiCleaned is false; the
\* paragraphs of a page are those of its content lines whatever useAI is.
C21_NoRewriteWhenOff ==
  /\ (~useAI \/ ~anthropic) =>
       /\ inFlight = {} /\ aiFailed = {}
       /\ \A k \in Pages : aiCalls[k] = 0 /\ aiReply[k] = <<>>
       /\ Succeeded =>
            /\ response.body.aiCleaned = FALSE
            /\ \A k \in Pages : ResponsePages[k].plainText = RawOf(k)
  /\ Succeeded =>
       \A k \in Pages :
         ResponsePages[k].paragraphs =
           groupLinesIntoParagraphs(NonBlankLines(pagesData[k].textLines))

\* With a client but useAI false, a request holding a page of 100
\* characters was answered without an API call.
C21_Witness ==
  /\ Succeeded /\ ~useAI /\ anthropic
  /\ \E k \in Pages :
       /\ Len(RawOf(k)) >= 100
       /\ aiCalls[k] = 0
       /\ ResponsePages[k].plainText = RawOf(k)
  /\ response.body.aiCleaned = FALSE

----------------------------------------------------------------------------
(* Properties of the two components, checked under UiSpec *)

\* A file that must be turned away: no PDF, or more than 50 MB.
Invalid(file) == file.type # "application/pdf" \/ file.size > 52428800

RECURSIVE NumValid(_)
NumValid(files) ==
  IF files = <<>> THEN 0
  ELSE (IF Invalid(Head(files)) THEN 0 ELSE 1) + NumValid(Tail(files))

\* C22: selecting a file that is no PDF or is larger than 50 MB sets an
\* error message and sends nothing; selecting a PDF of at most 50 MB sends
\* one upload request; requests are sent, and onDocumentUploaded is called,
\* for valid files only.
C22_ValidationGate ==
  [][ /\ upSent' = NumValid(upFiles')
      /\ upDelivered' <= upSent'
      /\ Len(upFiles') > Len(upFiles) =>
           IF Invalid(upFiles'[Len(upFiles')])
           THEN /\ uploadError' # ""
                /\ ~uploading'
                /\ upPending' = upPending
                /\ upSent' = upSent
                /\ upDelivered' = upDelivered
                /\ currentDocument' = currentDocument
           ELSE /\ uploadError' = ""
                /\ uploading'
                /\ upSent' = upSent + 1
                /\ Cardinality(upPending') = Cardinality(upPending) + 1 ]_vars

\* A PDF one byte over 50 MB and a PDF of exactly 50 MB were selected: one
\* request was sent and its document delivered.
C22_Witness ==
  /\ Len(upFiles) = 2
  /\ upFiles[1] = [type |-> Pdf, size |-> MaxUploadSize + 1]
  /\ upFiles[2] = [type |-> Pdf, size |-> MaxUploadSize]
  /\ upSent = 1
  /\ upDelivered = 1

\* C27: at most one upload request and at most one extraction request is
\* in flight at any time.
C27_OneRequestInFlight ==
  /\ Cardinality(upPending) <= 1
  /\ Cardinality(exPending) <= 1

\* C28: the text shown, the error shown and every onExtractionComplete call
\* come from a request made for the current document.
C28_TextOfCurrentDocument ==
  /\ extractedText # <<>> => textOf = currentDocument
  /\ error # "" => errorOf = currentDocument
  /\ \A i \in 1..Len(exCompleted) : exCompleted[i].of = exCompleted[i].at

\* C29: whenever the pages view is rendered, selectedPage is an index into
\* extractedText.pages.
C29_SelectedPageValid ==
  View = "pages" => selectedPage \in 0..(extractedText[1].pages - 1)

\* The state the hooks hold once every update queued so far is applied.
AfterUpdates == Applied(queue, Shown)


====
